---- MODULE Spec2Model ----
(***************************************************************************)
(* Success probabilities of the exploding-dice check of "Never Stop        *)
(* Blowing Up" (src/main.rs).                                              *)
(*                                                                         *)
(* The two probability functions are pure; they are operators here,        *)
(* computed branch by branch as the Rust code computes them.  The state    *)
(* machine walks the call tree of one evaluation: a state with             *)
(* pc = "call" is one activation (the top-level call or any nested         *)
(* recursive call), and the explode actions descend into the recursive     *)
(* call the code makes, so every activation of every evaluation within     *)
(* the bounds is a reachable state.                                        *)
(*                                                                         *)
(* Numbers.  u32 values are naturals; a subtraction whose result would be  *)
(* negative is an arithmetic overflow (a panic in a debug build), which    *)
(* aborts the evaluation: no value is returned.  f64 values are exact      *)
(* rationals <<numerator, denominator>> in lowest terms; the marker        *)
(* Overflow stands for "the evaluation panicked".  u32 additions stay far  *)
(* below 2^32 for the bounded inputs.                                      *)
(***************************************************************************)
EXTENDS Integers, Sequences, FiniteSets, TLC

\* Bounds of the explored inputs.
MaxDC == 42
MaxTokens == 3

-----------------------------------------------------------------------------
(* enum Die *)
Die == {"D4", "D6", "D8", "D10", "D12", "D20"}

(* Die::sides *)
sides(die) ==
    CASE die = "D4" -> 4
      [] die = "D6" -> 6
      [] die = "D8" -> 8
      [] die = "D10" -> 10
      [] die = "D12" -> 12
      [] die = "D20" -> 20

\* Mutant: the ladder never upgrades the die.
next_stuck(die) == die

(* Die::next *)
next(die) ==
    CASE die = "D4" -> "D6"
      [] die = "D6" -> "D8"
      [] die = "D8" -> "D10"
      [] die = "D10" -> "D12"
      [] die = "D12" -> "D20"
      [] die = "D20" -> "D20"

-----------------------------------------------------------------------------
(* f64 arithmetic, exact. *)
RECURSIVE GCD(_, _)
GCD(a, b) == IF b = 0 THEN a ELSE GCD(b, a % b)

LCM(a, b) == (a \div GCD(a, b)) * b

\* The result of an evaluation that panicked on arithmetic overflow.
Overflow == <<0, 0>>

IsOverflow(x) == x[2] = 0

\* n as f64 / d as f64, for naturals n and d > 0
Frac(n, d) == LET g == GCD(n, d) IN <<n \div g, d \div g>>

f64_zero == <<0, 1>>

f64_one == <<1, 1>>

f64_mul(x, y) ==
    IF IsOverflow(x) \/ IsOverflow(y) THEN Overflow
    ELSE Frac(x[1] * y[1], x[2] * y[2])

\* x / (d as f64)
f64_div(x, d) == f64_mul(x, <<1, d>>)

f64_add(x, y) ==
    IF IsOverflow(x) \/ IsOverflow(y) THEN Overflow
    ELSE LET l == LCM(x[2], y[2])
         IN  Frac(x[1] * (l \div x[2]) + y[1] * (l \div y[2]), l)

\* x <= y
f64_le(x, y) ==
    /\ ~IsOverflow(x)
    /\ ~IsOverflow(y)
    /\ LET l == LCM(x[2], y[2])
       IN  x[1] * (l \div x[2]) <= y[1] * (l \div y[2])

-----------------------------------------------------------------------------
(* u32 arithmetic. *)
\* a - b overflows
u32_sub_overflows(a, b) == b > a

\* u32::saturating_sub
saturating_sub(a, b) == IF b > a THEN 0 ELSE a - b

\* u32::min
min(a, b) == IF a <= b THEN a ELSE b

-----------------------------------------------------------------------------
(* Branch conditions shared by both functions. *)

\* Mutant: only dc = 1 is recognised as a guaranteed success.
always_succeeds_only_one(dc) == dc = 1

\* "Can always roll a 1 or higher": if dc <= 1 { return 1.0; }
always_succeeds(dc) == dc <= 1

\* "If the DC is lower than or equal to the maximum value of the die."
within_die(die, dc) == dc <= sides(die)

-----------------------------------------------------------------------------
(* probability_of_success *)

\* Mutant: off by one in the number of successful outcomes.
successful_outcomes_off_by_one(die, dc) == sides(die) - dc

\* (die.sides() - dc + 1): # of successful outcomes
successful_outcomes(die, dc) == sides(die) - dc + 1

RECURSIVE probability_of_success(_, _)
probability_of_success(die, dc) ==
    IF always_succeeds(dc) THEN f64_one
    ELSE IF within_die(die, dc) THEN
        IF u32_sub_overflows(sides(die), dc) THEN Overflow
        ELSE Frac(successful_outcomes(die, dc), sides(die))
    ELSE IF u32_sub_overflows(dc, sides(die)) THEN Overflow
    ELSE LET p == Frac(1, sides(die))
         IN  f64_mul(p, probability_of_success(next(die), dc - sides(die)))

-----------------------------------------------------------------------------
(* probability_of_success_with_turbo_tokens *)

\* Mutant: the turbo tokens are counted without the natural successes' +1.
successful_outcomes_with_tokens_no_plus_one(die, turbo_tokens, dc) ==
    min(sides(die) - dc + turbo_tokens, sides(die))

\* Mutant: the number of successful outcomes is not capped at the face count.
successful_outcomes_with_tokens_uncapped(die, turbo_tokens, dc) ==
    sides(die) - dc + 1 + turbo_tokens

\* (die.sides() - dc + 1 + turbo_tokens).min(die.sides())
successful_outcomes_with_tokens(die, turbo_tokens, dc) ==
    min(sides(die) - dc + 1 + turbo_tokens, sides(die))

\* Mutant: the guard lets through one roll more than the tokens can pay for.
cannot_explode_loose(die, roll, turbo_tokens) ==
    roll + turbo_tokens + 1 < sides(die) - 1

\* if roll + turbo_tokens < die.sides() - 1 { return 0.0; }
cannot_explode(die, roll, turbo_tokens) ==
    roll + turbo_tokens < sides(die) - 1

\* (die.sides() - roll).saturating_sub(1)
tokens_needed_to_explode(die, roll) ==
    saturating_sub(sides(die) - roll, 1)

\* The closure body's arithmetic overflows for this roll.
roll_overflows(die, roll, turbo_tokens, dc) ==
    \/ u32_sub_overflows(sides(die), 1)
    \/ ~cannot_explode(die, roll, turbo_tokens)
       /\ \/ u32_sub_overflows(sides(die), roll)
          \/ u32_sub_overflows(turbo_tokens, tokens_needed_to_explode(die, roll))
          \/ u32_sub_overflows(dc, roll)

RECURSIVE probability_of_success_with_turbo_tokens(_, _, _)
RECURSIVE sum_rolls(_, _, _, _)

\* The closure of the map over the rolls: one roll's contribution.
roll_contribution(die, roll, turbo_tokens, dc) ==
    IF roll_overflows(die, roll, turbo_tokens, dc) THEN Overflow
    ELSE IF cannot_explode(die, roll, turbo_tokens) THEN f64_zero
    ELSE f64_div(
            probability_of_success_with_turbo_tokens(
                next(die),
                turbo_tokens - tokens_needed_to_explode(die, roll),
                dc - roll),
            sides(die))

\* (1..=die.sides()).map(..).sum(), folded over the rolls 1..upto
sum_rolls(die, upto, turbo_tokens, dc) ==
    IF upto = 0 THEN f64_zero
    ELSE f64_add(sum_rolls(die, upto - 1, turbo_tokens, dc),
                 roll_contribution(die, upto, turbo_tokens, dc))

probability_of_success_with_turbo_tokens(die, turbo_tokens, dc) ==
    IF always_succeeds(dc) THEN f64_one
    ELSE IF within_die(die, dc) THEN
        IF u32_sub_overflows(sides(die), dc) THEN Overflow
        ELSE Frac(successful_outcomes_with_tokens(die, turbo_tokens, dc), sides(die))
    ELSE sum_rolls(die, sides(die), turbo_tokens, dc)

-----------------------------------------------------------------------------
(* The call tree of one evaluation. *)
VARIABLES
    pc,       \* "idle", "call" (an activation is running), "returned", "panicked"
    fn,       \* the function of the activation: "base", "tokens" ("none" when idle)
    frame,    \* the activation's arguments [die, turbo_tokens, dc]
    caller,   \* the arguments of the activation that made this call
    top,      \* the arguments of the top-level call
    depth,    \* number of nested recursive calls below the top-level call
    roll,     \* the roll for which the caller made this call (0: top level)
    considered, \* the roll the activation's closure last handled (0: none)
    result    \* the value last returned by `return`

vars == <<pc, fn, frame, caller, top, depth, roll, considered, result>>

Frame(die, turbo_tokens, dc) == [die |-> die, turbo_tokens |-> turbo_tokens, dc |-> dc]

NoFrame == Frame("D4", 0, 0)

Init ==
    /\ pc = "idle"
    /\ fn = "none"
    /\ frame = NoFrame
    /\ caller = NoFrame
    /\ top = NoFrame
    /\ depth = 0
    /\ roll = 0
    /\ considered = 0
    /\ result = f64_zero

\* A caller evaluates probability_of_success(die, dc).
CallBase(die, dc) ==
    /\ pc = "idle"
    /\ pc' = "call"
    /\ fn' = "base"
    /\ frame' = Frame(die, 0, dc)
    /\ caller' = Frame(die, 0, dc)
    /\ top' = Frame(die, 0, dc)
    /\ UNCHANGED <<depth, roll, considered, result>>

\* main evaluates probability_of_success_with_turbo_tokens(die, turbo_tokens, dc).
CallTokens(die, turbo_tokens, dc) ==
    /\ pc = "idle"
    /\ pc' = "call"
    /\ fn' = "tokens"
    /\ frame' = Frame(die, turbo_tokens, dc)
    /\ caller' = Frame(die, turbo_tokens, dc)
    /\ top' = Frame(die, turbo_tokens, dc)
    /\ UNCHANGED <<depth, roll, considered, result>>

Return(value) ==
    /\ pc' = "returned"
    /\ result' = value
    /\ UNCHANGED <<fn, frame, caller, top, depth, roll, considered>>

Panic ==
    /\ pc' = "panicked"
    /\ UNCHANGED <<fn, frame, caller, top, depth, roll, considered, result>>

Descend(die, turbo_tokens, dc) ==
    /\ pc' = "call"
    /\ caller' = frame
    /\ frame' = Frame(die, turbo_tokens, dc)
    /\ depth' = depth + 1
    /\ considered' = 0
    /\ UNCHANGED <<fn, top, result>>

\* probability_of_success: if dc <= 1 { return 1.0; }
BaseGuaranteed ==
    /\ pc = "call" /\ fn = "base"
    /\ always_succeeds(frame.dc)
    /\ Return(f64_one)

\* probability_of_success: if dc <= die.sides() { return ... }
BaseDirect ==
    /\ pc = "call" /\ fn = "base"
    /\ ~always_succeeds(frame.dc)
    /\ within_die(frame.die, frame.dc)
    /\ IF u32_sub_overflows(sides(frame.die), frame.dc) THEN Panic
       ELSE Return(Frac(successful_outcomes(frame.die, frame.dc), sides(frame.die)))

\* probability_of_success: the recursive call of the explosion.
BaseExplode ==
    /\ pc = "call" /\ fn = "base"
    /\ ~always_succeeds(frame.dc)
    /\ ~within_die(frame.die, frame.dc)
    /\ IF u32_sub_overflows(frame.dc, sides(frame.die)) THEN Panic
       ELSE /\ Descend(next(frame.die), 0, frame.dc - sides(frame.die))
            /\ roll' = sides(frame.die)

\* probability_of_success_with_turbo_tokens: if dc <= 1 { return 1.0; }
TokensGuaranteed ==
    /\ pc = "call" /\ fn = "tokens"
    /\ always_succeeds(frame.dc)
    /\ Return(f64_one)

\* probability_of_success_with_turbo_tokens: if dc <= die.sides() { return ... }
TokensDirect ==
    /\ pc = "call" /\ fn = "tokens"
    /\ ~always_succeeds(frame.dc)
    /\ within_die(frame.die, frame.dc)
    /\ IF u32_sub_overflows(sides(frame.die), frame.dc) THEN Panic
       ELSE Return(Frac(successful_outcomes_with_tokens(
                            frame.die, frame.turbo_tokens, frame.dc),
                        sides(frame.die)))

\* The closure, for a roll that cannot explode: return 0.0.
TokensNoExplode(r) ==
    /\ pc = "call" /\ fn = "tokens"
    /\ ~always_succeeds(frame.dc)
    /\ ~within_die(frame.die, frame.dc)
    /\ ~u32_sub_overflows(sides(frame.die), 1)
    /\ cannot_explode(frame.die, r, frame.turbo_tokens)
    /\ considered' = r
    /\ result' = f64_zero
    /\ UNCHANGED <<pc, fn, frame, caller, top, depth, roll>>

\* The closure, for a roll that explodes: the recursive call.
TokensExplode(r) ==
    /\ pc = "call" /\ fn = "tokens"
    /\ ~always_succeeds(frame.dc)
    /\ ~within_die(frame.die, frame.dc)
    /\ \/ u32_sub_overflows(sides(frame.die), 1)
       \/ ~cannot_explode(frame.die, r, frame.turbo_tokens)
    /\ IF roll_overflows(frame.die, r, frame.turbo_tokens, frame.dc)
       THEN Panic
       ELSE /\ Descend(next(frame.die),
                       frame.turbo_tokens - tokens_needed_to_explode(frame.die, r),
                       frame.dc - r)
            /\ roll' = r

Next ==
    \/ \E die \in Die, dc \in 0..MaxDC : CallBase(die, dc)
    \/ \E die \in Die, turbo_tokens \in 0..MaxTokens, dc \in 0..MaxDC :
          CallTokens(die, turbo_tokens, dc)
    \/ BaseGuaranteed
    \/ BaseDirect
    \/ BaseExplode
    \/ TokensGuaranteed
    \/ TokensDirect
    \/ \E r \in 1..sides(frame.die) : TokensNoExplode(r)
    \/ \E r \in 1..sides(frame.die) : TokensExplode(r)

Spec == Init /\ [][Next]_vars

\* The value the running activation returns.
Value ==
    IF fn = "base" THEN probability_of_success(frame.die, frame.dc)
    ELSE probability_of_success_with_turbo_tokens(frame.die, frame.turbo_tokens, frame.dc)

-----------------------------------------------------------------------------
(* The exploding roll of the game rules, computed from the roll process      *)
(* itself: a uniform roll on 1..faces; a maximum roll is banked and the next *)
(* die of the ladder is rolled; the check succeeds when the total is >= dc.  *)

\* The ladder of face counts, in the order of the dice; the last one repeats.
LadderFaces == <<4, 6, 8, 10, 12, 20>>

LadderPosition(die) == CHOOSE i \in 1..Len(LadderFaces) : LadderFaces[i] = sides(die)

\* Number of non-maximum rolls r of a die with `faces` faces with banked + r >= dc.
NonMaxSuccesses(faces, banked, dc) ==
    Cardinality({r \in 1..(faces - 1) : banked + r >= dc})

RECURSIVE ExplodingRoll(_, _, _)
ExplodingRoll(i, banked, dc) ==
    IF banked + 1 >= dc THEN f64_one
    ELSE LET faces == LadderFaces[i]
         IN  f64_add(Frac(NonMaxSuccesses(faces, banked, dc), faces),
                     f64_div(ExplodingRoll(min(i + 1, Len(LadderFaces)),
                                           banked + faces, dc),
                             faces))

-----------------------------------------------------------------------------
(* Properties. *)

Running == pc = "call"

RunningBase == pc = "call" /\ fn = "base"

RunningTokens == pc = "call" /\ fn = "tokens"

BaseValue == probability_of_success(frame.die, frame.dc)

InUnitInterval(x) == f64_le(f64_zero, x) /\ f64_le(x, f64_one)

\* C1: with zero turbo tokens, probability_of_success_with_turbo_tokens
\* returns exactly the value of probability_of_success, for every die and dc.
C1_ZeroTokensEqualsBase ==
    RunningTokens /\ frame.turbo_tokens = 0 => Value = BaseValue

\* C2: for every die, token count and dc, the token model's value is at
\* least the base model's value.
C2_TokensNeverHurt ==
    RunningTokens => f64_le(BaseValue, Value)

\* A call with tokens in the explode branch whose value is strictly larger
\* than the base model's.
C2_Witness ==
    /\ RunningTokens
    /\ frame.turbo_tokens > 0
    /\ ~within_die(frame.die, frame.dc)
    /\ ~f64_le(Value, BaseValue)

\* C3: the value of every call of either function, nested recursive calls
\* included, lies in [0, 1]; so does every value handed back by a return.
C3_InUnitInterval ==
    /\ Running => InUnitInterval(Value)
    /\ pc = "returned" => InUnitInterval(result)

\* A nested call of the token model, two levels down, with a value strictly
\* between 0 and 1.
C3_Witness ==
    /\ RunningTokens
    /\ depth >= 2
    /\ frame.turbo_tokens > 0
    /\ Value # f64_zero
    /\ Value # f64_one

\* C4: probability_of_success(die, dc) is the exact success probability of
\* the exploding-roll process started on that die; in particular
\* probability(D4,4) = 1/4, probability(D4,5) = 1/4, probability(D20,20) = 1/20.
C4_ExactExplodingRoll ==
    /\ RunningBase => Value = ExplodingRoll(LadderPosition(frame.die), 0, frame.dc)
    /\ RunningBase /\ frame.die = "D4" /\ frame.dc \in {4, 5} => Value = <<1, 4>>
    /\ RunningBase /\ frame.die = "D20" /\ frame.dc = 20 => Value = <<1, 20>>

\* A top-level base call that needs two explosions to succeed.
C4_Witness ==
    /\ RunningBase
    /\ depth = 0
    /\ frame.dc > sides(frame.die) + sides(next(frame.die))

\* C5: probability_of_success(die, dc) is non-increasing in dc.
C5_BaseMonotone ==
    RunningBase =>
        \A dc1 \in 0..frame.dc :
            f64_le(Value, probability_of_success(frame.die, dc1))

\* The first dc past the face count, where the explosion recursion takes over.
C5_Witness ==
    /\ RunningBase
    /\ depth = 0
    /\ frame.dc = sides(frame.die) + 1

\* C6: for dc in {0, 1} both functions return exactly 1.0, and the call's
\* only step is that return: it makes no recursive call.
C6_GuaranteedSuccess ==
    /\ [](Running /\ frame.dc <= 1 => Value = f64_one)
    /\ [][Running /\ frame.dc <= 1 =>
            pc' = "returned" /\ result' = f64_one /\ depth' = depth /\ frame' = frame]_vars

\* A top-level call of the token model with tokens and dc <= 1 has returned 1.0.
C6_Witness ==
    /\ pc = "returned"
    /\ fn = "tokens"
    /\ depth = 0
    /\ frame.turbo_tokens > 0
    /\ frame.dc <= 1
    /\ result = f64_one

\* C7: every nested recursive call lowers the residual dc by at least 4, so
\* the nesting depth never exceeds dc / 4 of the top-level call.
C7_EachCallLowersDcByFour ==
    Running /\ depth > 0 =>
        /\ caller.dc - frame.dc >= 4
        /\ depth <= top.dc \div 4

\* C8: no unsigned subtraction of the token model goes below zero: the
\* evaluation never panics, turbo_tokens - tokens_needed_to_explode is only
\* evaluated when tokens_needed_to_explode <= turbo_tokens, and a recursive
\* call gets no more tokens than its caller has.
C8_NoUnderflow ==
    /\ pc # "panicked"
    /\ Running => ~IsOverflow(Value)
    /\ RunningTokens /\ ~always_succeeds(frame.dc) /\ within_die(frame.die, frame.dc) =>
          ~u32_sub_overflows(sides(frame.die), frame.dc)
    /\ RunningTokens /\ ~within_die(frame.die, frame.dc) =>
          \A r \in 1..sides(frame.die) :
              /\ ~roll_overflows(frame.die, r, frame.turbo_tokens, frame.dc)
              /\ ~cannot_explode(frame.die, r, frame.turbo_tokens) =>
                    /\ tokens_needed_to_explode(frame.die, r) <= frame.turbo_tokens
                    /\ r <= frame.dc
    /\ RunningTokens /\ depth > 0 =>
          /\ frame.turbo_tokens \in Nat
          /\ frame.turbo_tokens <= caller.turbo_tokens

\* A recursive call made after tokens were deducted.
C8_Witness ==
    /\ RunningTokens
    /\ depth > 0
    /\ frame.turbo_tokens < caller.turbo_tokens

\* C9: for every roll treated as exploding, the tokens deducted before the
\* recursive call raise the roll to the face count:
\* roll + tokens_needed_to_explode = faces(die).
C9_TokensRaiseRollToMax ==
    RunningTokens /\ depth > 0 =>
        roll + (caller.turbo_tokens - frame.turbo_tokens) = sides(caller.die)

\* C10: for a fixed die and token count, the token model's value is
\* non-increasing in dc.
C10_TokensMonotone ==
    RunningTokens =>
        \A dc1 \in 0..frame.dc :
            f64_le(Value,
                   probability_of_success_with_turbo_tokens(
                       frame.die, frame.turbo_tokens, dc1))

====
